---- MODULE Spec2Model ----
(***************************************************************************)
(* Model of netflix_movies.py: the ETL cleaner for a Netflix-style table.   *)
(*                                                                         *)
(* A string is a sequence of characters.  A character is a one-character    *)
(* TLA+ string; a few whole words that the program compares against         *)
(* ("movie", "Unknown", the sentinel literals, numeric literals) are kept   *)
(* as single indivisible tokens made of non-blank ASCII characters.         *)
(* A cell of the table is a tagged value: a string, a number or missing.    *)
(***************************************************************************)
EXTENDS Integers, Sequences, FiniteSets, TLC

VARIABLES pc, cols, df, input, prev, filledCast, text, cleaned

vars == <<pc, cols, df, input, prev, filledCast, text, cleaned>>

---------------------------------------------------------------------------
(* Bounds of the model *)

MaxRows == 2
MaxLen == 3

---------------------------------------------------------------------------
(* Characters *)

\* what Python's str.strip() and the regex class \s treat as blank
Whitespace == {" ", "\t", "\n", "\r"}

LineBreaks == {"\n", "\r"}

\* characters that str.encode('ascii', 'ignore') drops
NonAscii == {"é", "É"}

LowerChar(c) ==
    CASE c = "A" -> "a"
      [] c = "B" -> "b"
      [] c = "G" -> "g"
      [] c = "É" -> "é"
      [] c = "Movie" -> "movie"
      [] c = "MOVIE" -> "movie"
      [] c = "Unknown" -> "unknown"
      [] c = "UNKNOWN" -> "unknown"
      [] c = "N/A" -> "n/a"
      [] OTHER -> c

\* first letter of a word for str.title()
UpperFirst(c) ==
    CASE c = "a" -> "A"
      [] c = "b" -> "B"
      [] c = "g" -> "G"
      [] c = "é" -> "É"
      [] c = "movie" -> "Movie"
      [] c = "unknown" -> "Unknown"
      [] OTHER -> c

Letters == {"a", "b", "g", "A", "B", "G", "é", "É", "movie", "Movie", "MOVIE",
            "unknown", "Unknown", "UNKNOWN"}

\* code point order of the characters a sort key can hold
Rank(c) ==
    CASE c = "\t" -> 9
      [] c = "\n" -> 10
      [] c = "\r" -> 13
      [] c = " " -> 32
      [] c = "," -> 44
      [] c = ";" -> 59
      [] c = "?" -> 63
      [] c = "A" -> 65
      [] c = "B" -> 66
      [] c = "a" -> 97
      [] c = "b" -> 98
      [] c = "é" -> 233
      [] OTHER -> 0

---------------------------------------------------------------------------
(* String operations *)

RECURSIVE LStrip(_)
LStrip(s) ==
    IF s # <<>> /\ Head(s) \in Whitespace THEN LStrip(Tail(s)) ELSE s

RECURSIVE RStrip(_)
RStrip(s) ==
    IF s # <<>> /\ s[Len(s)] \in Whitespace
    THEN RStrip(SubSeq(s, 1, Len(s) - 1))
    ELSE s

\* str.strip()
Strip(s) == RStrip(LStrip(s))

\* re.sub(r'[set]+', repl, s): every maximal run of characters of set
\* becomes the one character repl
RECURSIVE SubRuns(_, _, _)
SubRuns(s, set, repl) ==
    IF s = <<>> THEN <<>>
    ELSE IF Head(s) \in set
         THEN IF Len(s) > 1 /\ s[2] \in set
              THEN SubRuns(Tail(s), set, repl)
              ELSE <<repl>> \o SubRuns(Tail(s), set, repl)
         ELSE <<Head(s)>> \o SubRuns(Tail(s), set, repl)

\* str.replace(from, to) for one-character from and to
ReplaceChar(s, from, to) ==
    [i \in 1..Len(s) |-> IF s[i] = from THEN to ELSE s[i]]

\* s.encode('ascii', 'ignore').decode('utf-8')
IsAscii(c) == c \notin NonAscii
AsciiOnly(s) == SelectSeq(s, IsAscii)

\* str.lower()
Lower(s) == [i \in 1..Len(s) |-> LowerChar(s[i])]

\* str.title(): a letter that follows a letter is lowered, any other letter
\* is raised
TitleCase(s) ==
    [i \in 1..Len(s) |->
        IF i > 1 /\ s[i - 1] \in Letters
        THEN LowerChar(s[i])
        ELSE UpperFirst(LowerChar(s[i]))]

\* number of leading blank characters
RECURSIVE LeadingBlanks(_)
LeadingBlanks(s) ==
    IF s # <<>> /\ Head(s) \in Whitespace THEN 1 + LeadingBlanks(Tail(s)) ELSE 0

\* re.sub(r'\s*;\s*', '; ', s)
RECURSIVE SubSemicolons(_)
SubSemicolons(s) ==
    IF s = <<>> THEN <<>>
    ELSE LET k == LeadingBlanks(s)
         IN IF k < Len(s) /\ s[k + 1] = ";"
            THEN LET rest == SubSeq(s, k + 2, Len(s))
                 IN <<";", " ">> \o SubSemicolons(LStrip(rest))
            ELSE IF k > 0
                 THEN SubSeq(s, 1, k) \o SubSemicolons(SubSeq(s, k + 1, Len(s)))
                 ELSE <<Head(s)>> \o SubSemicolons(Tail(s))

\* code point order of two strings: s <= t
RECURSIVE StrLeq(_, _)
StrLeq(s, t) ==
    IF s = <<>> THEN TRUE
    ELSE IF t = <<>> THEN FALSE
    ELSE IF Head(s) = Head(t) THEN StrLeq(Tail(s), Tail(t))
    ELSE Rank(Head(s)) < Rank(Head(t))

---------------------------------------------------------------------------
(* Cells *)

NA == [k |-> "na"]
Str(s) == [k |-> "str", s |-> s]
Num(n) == [k |-> "num", n |-> n]

IsNA(v) == v.k = "na"
IsStr(v) == v.k = "str"

\* astype(str) of a text column: a missing cell becomes the text "nan"
AsStr(v) == IF IsStr(v) THEN v.s ELSE <<"nan">>

---------------------------------------------------------------------------
(* Cleaning helpers *)

clean_text_basic(v) ==
    IF IsNA(v) THEN <<>>
    ELSE LET stripped == Strip(AsStr(v))
             oneLine == SubRuns(stripped, LineBreaks, " ")
             spaced == SubRuns(oneLine, Whitespace, " ")
             noComma == ReplaceChar(spaced, ",", ";")
         IN AsciiOnly(noComma)

clean_genres(v) ==
    IF IsNA(v) THEN <<"Unknown">>
    ELSE TitleCase(SubSemicolons(ReplaceChar(Strip(Lower(AsStr(v))), ",", ";")))

---------------------------------------------------------------------------
(* Table helpers.  A row is [idx |-> its pandas index label,               *)
(* val |-> the cells by column name]; a table is a sequence of rows.       *)

\* the columns of names that exist in the schema, in the order of names
Existing(names, c) == SelectSeq(names, LAMBDA n : n \in c)

---------------------------------------------------------------------------
(* 2. drop unused columns *)

drop_cols == {"description", "rating", "date_added"}

DropColumnSet(c) == c \ drop_cols

DropColumns(t, c) ==
    [i \in 1..Len(t) |->
        [t[i] EXCEPT !.val = [col \in DropColumnSet(c) |-> t[i].val[col]]]]

---------------------------------------------------------------------------
(* 3. keep only movies: the column is overwritten by its trimmed,          *)
(* lowercased text, then compared                                          *)

NormType(v) == Str(Lower(Strip(AsStr(v))))

IsMovie(r) == r.val["type"] = Str(<<"movie">>)

\* the filter comparing on a copy and leaving the column as it was
KeepMoviesCompareOnly(t, c) ==
    IF "type" \in c
    THEN SelectSeq(t, LAMBDA r : NormType(r.val["type"]) = Str(<<"movie">>))
    ELSE t

KeepMovies(t, c) ==
    IF "type" \in c
    THEN SelectSeq([i \in 1..Len(t) |-> [t[i] EXCEPT !.val["type"] = NormType(@)]],
                   IsMovie)
    ELSE t

---------------------------------------------------------------------------
(* 4. standardize strings: trim every text cell, then turn the sentinel    *)
(* literals into the missing marker                                        *)

Sentinels == {<<"\\N">>, <<"N/A">>, <<"NULL">>, <<"None">>, <<"?">>}

StripCell(v) == IF IsStr(v) THEN Str(Strip(v.s)) ELSE v

ReplaceSentinel(v) == IF IsStr(v) /\ v.s \in Sentinels THEN NA ELSE v

\* df.applymap(strip), then df.replace(sentinels, pd.NA)
StandardizeStrings(t) ==
    [i \in 1..Len(t) |->
        [t[i] EXCEPT !.val = [col \in DOMAIN t[i].val |->
            ReplaceSentinel(StripCell(t[i].val[col]))]]]

---------------------------------------------------------------------------
(* 5. missing values *)

critical_cols(c) == {"show_id", "title"} \cap c

HasCritical(r, c) == \A col \in critical_cols(c) : ~IsNA(r.val[col])

DropMissingCritical(t, c) == SelectSeq(t, LAMBDA r : HasCritical(r, c))

fill_defaults == {"director", "cast", "country", "listed_in", "duration"}

FillCell(v) == IF IsNA(v) THEN Str(<<"Unknown">>) ELSE v

FillDefaults(t, c) ==
    [i \in 1..Len(t) |->
        [t[i] EXCEPT !.val = [col \in DOMAIN t[i].val |->
            IF col \in fill_defaults THEN FillCell(t[i].val[col])
            ELSE t[i].val[col]]]]

---------------------------------------------------------------------------
(* 6. remove rows whose cast is 'Unknown' *)

\* the comparison without str.lower()
CastKnownSameCase(r) == r.val["cast"].s # <<"Unknown">>

CastKnown(r) == Lower(r.val["cast"].s) # <<"unknown">>

RemoveUnknownCast(t, c) ==
    IF "cast" \in c
    THEN SelectSeq([i \in 1..Len(t) |-> [t[i] EXCEPT !.val["cast"] = Str(AsStr(@))]],
                   CastKnown)
    ELSE t

---------------------------------------------------------------------------
(* 7. numeric column.  A float is held as a whole number of quarters, so   *)
(* that halves and the mean of two halves are exact.                       *)

FallbackYear == 2000

NumericLiterals == {"2001", "1999", "2000.5", "-1", "-0.5", "0"}

Quarters(lit) ==
    CASE lit = "2001" -> 8004
      [] lit = "1999" -> 7996
      [] lit = "2000.5" -> 8002
      [] lit = "-1" -> -4
      [] lit = "-0.5" -> -2
      [] lit = "0" -> 0

Float(q) == [k |-> "float", q |-> q]

\* pd.to_numeric(errors="coerce"): any numeric literal parses, to a float;
\* everything else becomes NaN
ToNumeric(v) ==
    IF v.k = "float" THEN v
    ELSE IF IsStr(v) /\ Len(v.s) = 1 /\ v.s[1] \in NumericLiterals
         THEN Float(Quarters(v.s[1]))
         ELSE NA

\* rounding down (math.floor) instead of int()
Floor(q) == IF q >= 0 THEN q \div 4 ELSE -((3 - q) \div 4)

\* int(x) and astype(int): truncation toward zero
Trunc(q) == IF q >= 0 THEN q \div 4 ELSE -((-q) \div 4)

RECURSIVE InsertNum(_, _)
InsertNum(s, x) ==
    IF s = <<>> THEN <<x>>
    ELSE IF x < Head(s) THEN <<x>> \o s
    ELSE <<Head(s)>> \o InsertNum(Tail(s), x)

RECURSIVE SortNums(_)
SortNums(s) ==
    IF s = <<>> THEN <<>>
    ELSE InsertNum(SortNums(SubSeq(s, 1, Len(s) - 1)), s[Len(s)])

\* Series.median() of a non-empty sequence of floats
Median(qs) ==
    LET s == SortNums(qs)
        n == Len(s)
    IN IF n % 2 = 1 THEN s[(n + 1) \div 2]
       ELSE (s[n \div 2] + s[n \div 2 + 1]) \div 2

\* the parsed values of the column that are not NaN
ValidYears(t) ==
    LET parsed == [i \in 1..Len(t) |-> ToNumeric(t[i].val["release_year"])]
        valid == SelectSeq(parsed, LAMBDA v : ~IsNA(v))
    IN [i \in 1..Len(valid) |-> valid[i].q]

median_year(t) ==
    IF ValidYears(t) # <<>> THEN Trunc(Median(ValidYears(t))) ELSE FallbackYear

CoerceCell(v, fill) ==
    IF IsNA(ToNumeric(v)) THEN Num(fill) ELSE Num(Trunc(ToNumeric(v).q))

CoerceYear(t, c) ==
    IF "release_year" \in c
    THEN [i \in 1..Len(t) |->
            [t[i] EXCEPT !.val["release_year"] = CoerceCell(@, median_year(t))]]
    ELSE t

---------------------------------------------------------------------------
(* 8. text and genre normalization *)

text_cols == {"title", "director", "cast", "country", "duration"}

NormalizeText(t, c) ==
    [i \in 1..Len(t) |->
        [t[i] EXCEPT !.val = [col \in DOMAIN t[i].val |->
            IF col \in text_cols THEN Str(clean_text_basic(t[i].val[col]))
            ELSE IF col = "listed_in" THEN Str(clean_genres(t[i].val[col]))
            ELSE t[i].val[col]]]]

---------------------------------------------------------------------------
(* 9. duplicates *)

subset_cols(c) == Existing(<<"title", "director", "release_year">>, c)

DedupKey(r, c) == [i \in 1..Len(subset_cols(c)) |-> r.val[subset_cols(c)[i]]]

\* keep="last" instead of keep="first"
LastOccurrences(t, c) ==
    {i \in 1..Len(t) :
        \A j \in (i + 1)..Len(t) : DedupKey(t[j], c) # DedupKey(t[i], c)}

\* the positions of t that keep="first" retains
FirstOccurrences(t, c) ==
    {i \in 1..Len(t) : \A j \in 1..(i - 1) : DedupKey(t[j], c) # DedupKey(t[i], c)}

RECURSIVE Pick(_, _, _)
Pick(t, keep, i) ==
    IF i > Len(t) THEN <<>>
    ELSE (IF i \in keep THEN <<t[i]>> ELSE <<>>) \o Pick(t, keep, i + 1)

DropDuplicates(t, c) == Pick(t, FirstOccurrences(t, c), 1)

\* DataFrame.duplicated unpacks one (labels, shape) pair per key column; with
\* no key column and a table that is not empty there is nothing to unpack
\* and it raises ValueError
DuplicatedRaises(t, c) == subset_cols(c) = <<>> /\ t # <<>>

---------------------------------------------------------------------------
(* 10. sort and format *)

sort_cols(c) == Existing(<<"release_year", "title">>, c)

\* r1 sorts no later than r2 on the columns of sort_cols
RowLeq(r1, r2, c) ==
    LET yearLt == "release_year" \in c
                    /\ r1.val["release_year"].n < r2.val["release_year"].n
        yearEq == "release_year" \in c
                    => r1.val["release_year"].n = r2.val["release_year"].n
        titleLeq == "title" \in c => StrLeq(r1.val["title"].s, r2.val["title"].s)
    IN yearLt \/ (yearEq /\ titleLeq)

RECURSIVE InsertRow(_, _, _)
InsertRow(t, r, c) ==
    IF t = <<>> THEN <<r>>
    ELSE IF RowLeq(Head(t), r, c) THEN <<Head(t)>> \o InsertRow(Tail(t), r, c)
    ELSE <<r>> \o t

\* sort_values: rows with equal keys keep their order (lexsort for two keys,
\* and numpy sorts the short arrays of a single key by insertion)
RECURSIVE SortValues(_, _)
SortValues(t, c) ==
    IF t = <<>> THEN <<>>
    ELSE InsertRow(SortValues(SubSeq(t, 1, Len(t) - 1), c), t[Len(t)], c)

SortRows(t, c) == IF sort_cols(c) # <<>> THEN SortValues(t, c) ELSE t

\* the final pass with the comma rule left out
EscapeCellKeepsCommas(v) ==
    IF IsStr(v) THEN Str(SubRuns(v.s, LineBreaks, " ")) ELSE v

\* df.replace({r'[\r\n]+': ' ', ',': ' '}, regex=True) on one text cell
EscapeCell(v) ==
    IF IsStr(v) THEN Str(ReplaceChar(SubRuns(v.s, LineBreaks, " "), ",", " "))
    ELSE v

\* the regex replace over the whole table, then df.applymap(strip)
ReEscape(t) ==
    [i \in 1..Len(t) |->
        [t[i] EXCEPT !.val = [col \in DOMAIN t[i].val |->
            StripCell(EscapeCell(t[i].val[col]))]]]

---------------------------------------------------------------------------
(* 1. the table read_csv hands to the pipeline.  Every row of an input     *)
(* table is the base row with at most one cell replaced by another value   *)
(* of that column.                                                         *)

AllColumns == {"show_id", "type", "title", "director", "cast", "country",
               "release_year", "duration", "listed_in", "description"}

Schemas == {AllColumns,
            {"show_id", "type", "cast", "listed_in"},
            {"type", "title", "director"},
            {"show_id", "release_year"}}

BaseCell(col) ==
    CASE col = "show_id" -> Str(<<"s1">>)
      [] col = "type" -> Str(<<"Movie">>)
      [] col = "title" -> Str(<<"a">>)
      [] col = "director" -> Str(<<"d">>)
      [] col = "cast" -> Str(<<"c">>)
      [] col = "country" -> Str(<<"x">>)
      [] col = "release_year" -> Str(<<"2001">>)
      [] col = "duration" -> Str(<<"m">>)
      [] col = "listed_in" -> Str(<<"g">>)
      [] col = "description" -> Str(<<"x">>)

OtherCells(col) ==
    CASE col = "show_id" -> {Str(<<"s", ",", "\n", "2">>), Str(<<"?">>)}
      [] col = "type" -> {Str(<<" ", "MOVIE", " ">>), Str(<<"tv">>), NA}
      [] col = "title" -> {Str(<<"é", " ", "a">>), Str(<<"é", " ", "b">>),
                           Str(<<" ">>), Str(<<"?">>), NA}
      [] col = "director" -> {NA, Str(<<"d", ",", "\n", "é">>)}
      [] col = "cast" -> {NA, Str(<<"N/A">>), Str(<<"UNKNOWN">>),
                          Str(<<"é", "Unknown">>)}
      [] col = "country" -> {NA, Str(<<"x", "\r", "\n", "y">>)}
      [] col = "release_year" -> {Str(<<"1999">>), Str(<<"2000.5">>), Str(<<"-1">>),
                                  Str(<<"-0.5">>), Str(<<"0">>), Str(<<"bad">>), NA}
      [] col = "duration" -> {}
      [] col = "listed_in" -> {Str(<<"G", ",", " ", "\n", "a">>), NA}
      [] col = "description" -> {}

BaseRow(c) == [col \in c |-> BaseCell(col)]

InputRows(c) ==
    {BaseRow(c)} \cup
    UNION {{[BaseRow(c) EXCEPT ![col] = v] : v \in OtherCells(col)} : col \in c}

\* read_csv numbers the rows from 0
InputTables(c) ==
    UNION {{[i \in 1..n |-> [idx |-> i - 1, val |-> rows[i]]] :
                rows \in [1..n -> InputRows(c)]} : n \in 0..MaxRows}

---------------------------------------------------------------------------
(* The pipeline, one action per stage of main() *)

Stage(from, to, table) ==
    /\ pc = from
    /\ pc' = to
    /\ prev' = df
    /\ df' = table
    /\ UNCHANGED <<input, text, cleaned>>

Init ==
    /\ pc = "loaded"
    /\ cols \in Schemas
    /\ input \in InputTables(cols)
    /\ df = input
    /\ prev = input
    /\ filledCast = {}
    /\ text = <<>>
    /\ cleaned = <<>>

DropUnused ==
    /\ Stage("loaded", "dropped", DropColumns(df, cols))
    /\ cols' = DropColumnSet(cols)
    /\ UNCHANGED filledCast

KeepOnlyMovies ==
    /\ Stage("dropped", "filtered", KeepMovies(df, cols))
    /\ UNCHANGED <<cols, filledCast>>

Standardize ==
    /\ Stage("filtered", "standardized", StandardizeStrings(df))
    /\ UNCHANGED <<cols, filledCast>>

DropMissing ==
    /\ Stage("standardized", "critical", DropMissingCritical(df, cols))
    /\ UNCHANGED <<cols, filledCast>>

\* filledCast remembers the rows whose cast was missing when the fill ran
Fill ==
    /\ Stage("critical", "filled", FillDefaults(df, cols))
    /\ filledCast' = IF "cast" \in cols
                     THEN {df[i].idx : i \in {j \in 1..Len(df) : IsNA(df[j].val["cast"])}}
                     ELSE {}
    /\ UNCHANGED cols

RemoveCast ==
    /\ Stage("filled", "castFiltered", RemoveUnknownCast(df, cols))
    /\ UNCHANGED <<cols, filledCast>>

CleanNumeric ==
    /\ Stage("castFiltered", "coerced", CoerceYear(df, cols))
    /\ UNCHANGED <<cols, filledCast>>

Normalize ==
    /\ Stage("coerced", "normalized", NormalizeText(df, cols))
    /\ UNCHANGED <<cols, filledCast>>

RemoveDuplicates ==
    /\ ~DuplicatedRaises(df, cols)
    /\ Stage("normalized", "deduped", DropDuplicates(df, cols))
    /\ UNCHANGED <<cols, filledCast>>

\* the ValueError leaves main(): nothing is written, the process exits 1
RemoveDuplicatesRaises ==
    /\ DuplicatedRaises(df, cols)
    /\ Stage("normalized", "failed", df)
    /\ UNCHANGED <<cols, filledCast>>

Sort ==
    /\ Stage("deduped", "sorted", SortRows(df, cols))
    /\ UNCHANGED <<cols, filledCast>>

Format ==
    /\ Stage("sorted", "final", ReEscape(df))
    /\ UNCHANGED <<cols, filledCast>>

Next ==
    \/ DropUnused
    \/ KeepOnlyMovies
    \/ Standardize
    \/ DropMissing
    \/ Fill
    \/ RemoveCast
    \/ CleanNumeric
    \/ Normalize
    \/ RemoveDuplicates
    \/ RemoveDuplicatesRaises
    \/ Sort
    \/ Format

Spec == Init /\ [][Next]_vars

---------------------------------------------------------------------------
(* The text clean on its own, applied twice to every short string *)

TextAlphabet == {"a", " ", "\t", "\n", "\r", ",", "é"}

Strings(n) == UNION {[1..k -> TextAlphabet] : k \in 0..n}

InitText ==
    /\ pc = "text"
    /\ cols = {}
    /\ input = <<>>
    /\ df = <<>>
    /\ prev = <<>>
    /\ filledCast = {}
    /\ text \in Strings(MaxLen)
    /\ cleaned = <<>>

CleanFirst ==
    /\ pc = "text"
    /\ cleaned = <<>>
    /\ cleaned' = <<clean_text_basic(Str(text))>>
    /\ UNCHANGED <<pc, cols, df, input, prev, filledCast, text>>

CleanAgain ==
    /\ pc = "text"
    /\ Len(cleaned) = 1
    /\ cleaned' = Append(cleaned, clean_text_basic(Str(cleaned[1])))
    /\ UNCHANGED <<pc, cols, df, input, prev, filledCast, text>>

NextText == CleanFirst \/ CleanAgain

SpecText == InitText /\ [][NextText]_vars

---------------------------------------------------------------------------
(* Properties *)

Rows(t) == {t[i] : i \in 1..Len(t)}

\* the row of the loaded table, and of the table before the last stage,
\* that carries the index label of r
InputRow(r) == input[r.idx + 1]
PrevRow(r) == CHOOSE p \in Rows(prev) : p.idx = r.idx

Contains(s, chars) == \E i \in 1..Len(s) : s[i] \in chars

AfterCastFilter ==
    {"castFiltered", "coerced", "normalized", "deduped", "sorted", "final", "failed"}

\* C1: in the final table no cell of any column holds a newline, a carriage
\* return or a comma
C1_OutputIsCsvSafe ==
    pc = "final" =>
        \A r \in Rows(df) : \A col \in cols :
            IsStr(r.val[col]) => ~Contains(r.val[col].s, {"\n", "\r", ","})

\* a finished run with a row whose show_id, a column the text clean never
\* sees, was loaded with a comma and a line break in it
C1_Witness ==
    /\ pc = "final"
    /\ "show_id" \in cols
    /\ \E r \in Rows(df) :
          /\ Contains(InputRow(r).val["show_id"].s, {","})
          /\ Contains(InputRow(r).val["show_id"].s, {"\n"})

\* C2: every row of the final table has a show_id and a title that are
\* text and not empty
C2_IdAndTitleNotEmpty ==
    pc = "final" =>
        \A r \in Rows(df) : \A col \in critical_cols(cols) :
            IsStr(r.val[col]) /\ r.val[col].s # <<>>

\* C3: cleaning a cleaned string changes nothing
C3_CleanIsIdempotent ==
    Len(cleaned) = 2 => cleaned[2] = cleaned[1]

\* C4: a row whose cast is missing when the fill runs gets "Unknown", is
\* removed by the cast filter and never comes back, and right after the cast
\* filter no cast equals "unknown" in any letter case
C4_FillThenFilter ==
    "cast" \in cols =>
      /\ pc = "filled" =>
            \A r \in Rows(df) :
                (IsNA(PrevRow(r).val["cast"]) <=> r.idx \in filledCast)
                /\ (r.idx \in filledCast => r.val["cast"] = Str(<<"Unknown">>))
      /\ pc \in AfterCastFilter =>
            \A r \in Rows(df) :
                /\ r.idx \notin filledCast
                /\ ~IsNA(InputRow(r).val["cast"])
                /\ Strip(InputRow(r).val["cast"].s) \notin Sentinels
      /\ pc = "castFiltered" =>
            \A r \in Rows(df) : Lower(r.val["cast"].s) # <<"unknown">>

\* the cast filter has just removed a row that the fill had set to "Unknown"
C4_Witness ==
    /\ pc = "castFiltered"
    /\ "cast" \in cols
    /\ \E p \in Rows(prev) :
          /\ p.idx \in filledCast
          /\ p.val["cast"] = Str(<<"Unknown">>)
          /\ \A r \in Rows(df) : r.idx # p.idx

\* C5: right after the Deduplicator no two rows agree on the composite key,
\* the rows kept are exactly the first rows of their key in the table the
\* step ran on, and they keep their order
C5_DedupKeepsFirst ==
    pc = "deduped" =>
      /\ \A i, j \in 1..Len(df) :
            i # j => DedupKey(df[i], cols) # DedupKey(df[j], cols)
      /\ \A k \in 1..Len(prev) :
            prev[k] \in Rows(df) <=>
                \A j \in 1..(k - 1) : DedupKey(prev[j], cols) # DedupKey(prev[k], cols)
      /\ Rows(df) \subseteq Rows(prev)
      /\ \A i, j \in 1..Len(df) :
            i < j => \E a, b \in 1..Len(prev) : a < b /\ prev[a] = df[i] /\ prev[b] = df[j]

\* the Deduplicator has just removed a row
C5_Witness ==
    /\ pc = "deduped"
    /\ subset_cols(cols) # <<>>
    /\ Len(df) < Len(prev)

\* C6: with no key column in the schema the Deduplicator does not fail and
\* leaves the table as it was
C6_EmptyKeyIsNoOp ==
    (subset_cols(cols) = <<>> /\ pc \in {"deduped", "failed"}) =>
        pc = "deduped" /\ df = prev

---------------------------------------------------------------------------
(* The release years as the numeric claim reads them *)

IntegerLiterals == {"2001", "1999", "-1", "0"}

ParsesAsInteger(v) == IsStr(v) /\ Len(v.s) = 1 /\ v.s[1] \in IntegerLiterals

ParsesAsNumber(v) == IsStr(v) /\ Len(v.s) = 1 /\ v.s[1] \in NumericLiterals

\* the k-th smallest of the numbers qs[i], i in I
Kth(qs, I, k) ==
    CHOOSE x \in {qs[i] : i \in I} :
        /\ Cardinality({i \in I : qs[i] < x}) < k
        /\ k <= Cardinality({i \in I : qs[i] <= x})

\* twice the median, in quarters, of the numbers qs[i], i in I (I not empty)
TwiceMedian(qs, I) ==
    LET n == Cardinality(I)
    IN Kth(qs, I, (n + 1) \div 2) + Kth(qs, I, n \div 2 + 1)

\* x / d rounded down, and rounded toward zero, for d > 0
DivDown(x, d) == IF x >= 0 THEN x \div d ELSE -((d - 1 - x) \div d)
DivTowardZero(x, d) == IF x >= 0 THEN x \div d ELSE -((-x) \div d)

PrevYears == [i \in 1..Len(prev) |-> prev[i].val["release_year"]]

PrevQuarters ==
    [i \in 1..Len(prev) |->
        IF ParsesAsNumber(PrevYears[i]) THEN Quarters(PrevYears[i].s[1]) ELSE 0]

C8_TypeValuePreserved ==
    (pc = "filtered" /\ "type" \in cols) =>
        \A r \in Rows(df) : r.val["type"] = PrevRow(r).val["type"]

\* C8 amended: the category filter stores the trimmed, lowercased type, so
\* every row it keeps holds exactly "movie"; the other cells are untouched
C8_TypeValueNormalized ==
    (pc = "filtered" /\ "type" \in cols) =>
        \A r \in Rows(df) :
            /\ r.val["type"] = Str(<<"movie">>)
            /\ Lower(Strip(PrevRow(r).val["type"].s)) = <<"movie">>
            /\ \A col \in cols \ {"type"} : r.val[col] = PrevRow(r).val[col]

\* the category filter has just kept a row loaded as " MOVIE "
C8_Witness ==
    /\ pc = "filtered"
    /\ "type" \in cols
    /\ \E r \in Rows(df) : PrevRow(r).val["type"] = Str(<<" ", "MOVIE", " ">>)

\* C9: the final table is in ascending order of (release_year, title), for
\* the ones that exist, on the values it holds
C9_OutputIsSorted ==
    (pc = "final" /\ sort_cols(cols) # <<>>) =>
        \A i, j \in 1..Len(df) : i < j => RowLeq(df[i], df[j], cols)

\* C10: no two rows of the final table agree on (title, director,
\* release_year)
C10_OutputKeysDistinct ==
    (pc = "final" /\ subset_cols(cols) # <<>>) =>
        \A i, j \in 1..Len(df) :
            i # j => DedupKey(df[i], cols) # DedupKey(df[j], cols)

====
